---- MODULE Spec2Model ----
(***************************************************************************)
(* A model of the real-time call pipeline of backend/calls/consumers.py    *)
(* (TwilioMediaConsumer) and of the call-status webhook of                  *)
(* backend/calls/views.py.                                                  *)
(*                                                                          *)
(* Text is modelled character by character: a text is a sequence of         *)
(* one-character strings, so that strip, lower, the punctuation filter,    *)
(* the substring test, split and join are computed as Python computes      *)
(* them.                                                                    *)
(***************************************************************************)
EXTENDS Integers, Sequences, FiniteSets, TLC

(***************************************************************************)
(* Bounds of the model.                                                     *)
(***************************************************************************)
\* reply tasks that have not returned, at any one time
MaxTasks == 2
\* final fragments accepted for one utterance
MaxFrags == 2
\* contents streamed by the generation service for one reply
MaxTokens == 1
\* user turns of one history
MaxTurns == 1
\* mark frames the transport has yet to return
MaxMarks == 1
\* requests sent to the test endpoints under one session_id
MaxPosts == 3
\* call-status webhooks received for one CallSid
MaxHooks == 2
\* length of the texts enumerated for the pure text functions
MaxStrLen == 2
\* number of tokens of the token streams enumerated for the chunker
MaxStream == 3

(***************************************************************************)
(* Characters and the Python string operations the consumer uses.           *)
(***************************************************************************)
UpperChars == <<"A","B","C","D","E","F","G","H","I","J","K","L","M",
                "N","O","P","Q","R","S","T","U","V","W","X","Y","Z">>

LowerChars == <<"a","b","c","d","e","f","g","h","i","j","k","l","m",
                "n","o","p","q","r","s","t","u","v","w","x","y","z">>

DigitChars == <<"0","1","2","3","4","5","6","7","8","9">>

Range(s) == { s[i] : i \in 1..Len(s) }

\* str.isspace for the characters that occur
IsSpace(c) == c \in {" ", "\n", "\t"}

\* the regular expression class \w
IsWordChar(c) == c \in Range(UpperChars) \cup Range(LowerChars) \cup Range(DigitChars) \cup {"_"}

LowerChar(c) ==
    IF c \in Range(UpperChars)
    THEN LowerChars[CHOOSE i \in 1..Len(UpperChars) : UpperChars[i] = c]
    ELSE c

\* str.lower
Lower(s) == [i \in 1..Len(s) |-> LowerChar(s[i])]

\* str.strip
RECURSIVE LStrip(_)
LStrip(s) == IF s # <<>> /\ IsSpace(Head(s)) THEN LStrip(Tail(s)) ELSE s

RECURSIVE RStrip(_)
RStrip(s) ==
    IF s # <<>> /\ IsSpace(s[Len(s)]) THEN RStrip(SubSeq(s, 1, Len(s) - 1)) ELSE s

Strip(s) == RStrip(LStrip(s))

\* re.sub(r'[^\w\s]', '', s)
IsKeptChar(c) == IsWordChar(c) \/ IsSpace(c)

StripPunct(s) == SelectSeq(s, IsKeptChar)

\* a in b, for strings
IsSubstring(a, b) ==
    \E i \in 0..(Len(b) - Len(a)) : SubSeq(b, i + 1, i + Len(a)) = a

\* len(s.split()): the number of maximal runs of non-space characters
WordCount(s) ==
    Cardinality({ i \in 1..Len(s) :
        /\ ~IsSpace(s[i])
        /\ (i = 1 \/ IsSpace(s[i - 1])) })

\* "".join(parts)
RECURSIVE Concat(_)
Concat(parts) == IF parts = <<>> THEN <<>> ELSE Head(parts) \o Concat(Tail(parts))

\* " ".join(parts)
RECURSIVE JoinSpace(_)
JoinSpace(parts) ==
    IF parts = <<>> THEN <<>>
    ELSE IF Len(parts) = 1 THEN Head(parts)
    ELSE Head(parts) \o <<" ">> \o JoinSpace(Tail(parts))

\* every text over alphabet of length at most n
RECURSIVE TextsUpTo(_, _)
TextsUpTo(alphabet, n) ==
    IF n = 0 THEN { <<>> }
    ELSE LET shorter == TextsUpTo(alphabet, n - 1)
         IN  shorter \cup { Append(t, c) : t \in shorter, c \in alphabet }


(***************************************************************************)
(* Constants of consumers.py.                                               *)
(***************************************************************************)
\* END_CALL_PATTERN: the alternatives of the group, in lower case
EndCallPhrases == {
    <<"g","o","o","d","b","y","e">>,
    <<"b","y","e">>,
    <<"e","n","d"," ","c","a","l","l">>,
    <<"h","a","n","g"," ","u","p">>,
    <<"d","i","s","c","o","n","n","e","c","t">>,
    <<"s","t","o","p"," ","c","a","l","l","i","n","g">>,
    <<"c","u","t"," ","t","h","e"," ","c","a","l","l">>,
    <<"p","h","o","n","e"," ","r","a","k","h","d","o">>,
    <<"r","a","k","h"," ","d","o">> }

\* error_msg = "Sorry, I'm having trouble thinking."
ApologyText ==
    <<"S","o","r","r","y",","," ","I","'","m"," ","h","a","v","i","n","g"," ",
      "t","r","o","u","b","l","e"," ","t","h","i","n","k","i","n","g",".">>

\* the terminators of the semantic chunker: ['.', '!', '?', ':', '\n']
Terminators == {".", "!", "?", ":", "\n"}

\* CHUNK_SIZE = 4000
CHUNK_SIZE == 4000

(***************************************************************************)
(* The pure parts of the recognition callback and of the pipeline.          *)
(***************************************************************************)
\* END_CALL_PATTERN.search(s): some alternative occurs in s, ignoring case,
\* with a word boundary (\b) on both sides
EndCallMatchAt(s, p, i) ==
    /\ i + Len(p) - 1 <= Len(s)
    /\ Lower(SubSeq(s, i, i + Len(p) - 1)) = p
    /\ (i = 1 \/ ~IsWordChar(s[i - 1]))
    /\ (i + Len(p) - 1 = Len(s) \/ ~IsWordChar(s[i + Len(p)]))

\* a pattern that matches nothing
NoEndCall(s) == FALSE

END_CALL_PATTERN(s) ==
    \E p \in EndCallPhrases : \E i \in 1..Len(s) : EndCallMatchAt(s, p, i)

\* is_substantial = len(sentence) > 3 or len(sentence.split()) >= 2
IsSubstantial(sentence) == Len(sentence) > 3 \/ WordCount(sentence) >= 2

\* the anti-echo test of on_message: TRUE when the fragment is dropped
Normalize(s) == StripPunct(Lower(s))

\* the echo filter without its test that the baseline is not empty
EchoDroppedAnyBaseline(sentence, speaking, spoken) ==
    /\ speaking
    /\ \/ IsSubstring(Normalize(sentence), Normalize(spoken))
       \/ IsSubstring(Normalize(spoken), Normalize(sentence))

EchoDropped(sentence, speaking, spoken) ==
    /\ speaking
    /\ spoken # <<>>
    /\ \/ IsSubstring(Normalize(sentence), Normalize(spoken))
       \/ IsSubstring(Normalize(spoken), Normalize(sentence))

\* an aggregator that hands on the first fragment only
FirstFragment(buffer) == IF buffer = <<>> THEN <<>> ELSE Strip(Head(buffer))

\* " ".join(self.transcription_buffer).strip()
FullSentence(buffer) == Strip(JoinSpace(buffer))

\* the semantic chunker of llm_stream_generator, for one streamed content:
\* the fragments yielded (none or one) and the buffer kept
HasTerminator(buffer) == \E i \in 1..Len(buffer) : buffer[i] \in Terminators

LastPunctIdx(buffer) ==
    CHOOSE i \in 1..Len(buffer) :
        /\ buffer[i] \in Terminators
        /\ \A j \in (i + 1)..Len(buffer) : buffer[j] \notin Terminators

\* a chunker that yields the chunk without the padding space
ChunkYieldUnpadded(buffer) ==
    IF HasTerminator(buffer)
    THEN << SubSeq(buffer, 1, LastPunctIdx(buffer)) >>
    ELSE << >>

ChunkYield(buffer) ==
    IF HasTerminator(buffer)
    THEN << SubSeq(buffer, 1, LastPunctIdx(buffer)) \o <<" ">> >>
    ELSE << >>

ChunkKeep(buffer) ==
    IF HasTerminator(buffer)
    THEN SubSeq(buffer, LastPunctIdx(buffer) + 1, Len(buffer))
    ELSE buffer

\* a flush that yields whatever is left in the buffer
FlushYieldNonEmpty(buffer) ==
    IF buffer # <<>> THEN << buffer \o <<" ">> >> ELSE << >>

\* the flush at the end of the stream: if buffer.strip(): yield buffer + " "
FlushYield(buffer) ==
    IF Strip(buffer) # <<>> THEN << buffer \o <<" ">> >> ELSE << >>

\* greeting = "Hello! How can I help you today?"
GreetingText ==
    <<"H","e","l","l","o","!"," ","H","o","w"," ","c","a","n"," ","I",
      " ","h","e","l","p"," ","y","o","u"," ","t","o","d","a","y","?">>

\* goodbye_msg = "Thank you for calling. Goodbye! Have a great day."
GoodbyeText ==
    <<"T","h","a","n","k"," ","y","o","u"," ","f","o","r"," ","c","a",
      "l","l","i","n","g","."," ","G","o","o","d","b","y","e","!"," ",
      "H","a","v","e"," ","a"," ","g","r","e","a","t"," ","d","a","y","." >>

\* the system prompt that seeds the history (its wording plays no part)
SystemPromptText == <<"s","y","s">>

(***************************************************************************)
(* The inputs the environment supplies.                                     *)
(***************************************************************************)
\* transcripts of the recognition service, before .strip(): "hi u " (two
\* words, substantial) and "Bye" (one short word, an end-call phrase)
FragTexts == { <<"h","i"," ","u"," ">>, <<"B","y","e">> }

\* contents streamed by the generation service: "hi. u", of which the chunker
\* yields "hi." and keeps " u", and which a transcript "hi u" echoes
Tokens == { <<"h","i","."," ","u">> }

\* sizes in bytes of the audio chunks of the synthesis service: one and a
\* half packets, so that chunks end with and without a remainder to flush
AudioSizes == { 6000 }

\* CallStatus values of the status webhook
TwilioStatuses == { "queued", "initiated", "ringing", "in-progress", "completed",
                    "failed", "busy", "no-answer", "canceled" }

(***************************************************************************)
(* The state of one TwilioMediaConsumer, of the coroutines it has started, *)
(* and of the CallSession row of its call.                                  *)
(***************************************************************************)
VARIABLES
    connected,            \* the websocket is open (connect .. disconnect)
    call_active,          \* self.call_active
    stream_sid,           \* self.stream_sid, "" for None
    call_sid,             \* self.call_sid, "" for None
    session,              \* self.session is set
    messages,             \* self.messages
    dg_connection,        \* self.dg_connection: "none", "open", "failed", "finished"
    response_task,        \* self.response_task: a task id, 0 for None
    interrupted,          \* self.interrupted
    is_ai_speaking,       \* self.is_ai_speaking
    ai_spoken_buffer,     \* self.ai_spoken_buffer
    transcription_buffer, \* self.transcription_buffer
    llm_debounce_task,    \* self.llm_debounce_task: "none", "sleeping", "cancelled", "done"
    tasks,                \* the reply tasks created by asyncio.create_task
    on_msg,               \* the on_message callback: idle, or suspended in a send
    status,               \* CallSession.status of the call's row, "none" without a row
    marks_due,            \* mark frames sent that the transport has yet to return
    heard,                \* the final fragments buffered since the last utterance,
                          \* with the resets of the buffer between them
    pf,                   \* the run of a pure function, in the specifications of those
    test_conversations,   \* views._test_conversations: session_id -> messages,
                          \* <<>> for a session_id that is not a key
    test_sent,            \* the messages sent to the test endpoints, per session_id
    http_response,        \* the last request a view has handled and its response
    call_sessions         \* the CallSession table the webhooks write: CallSid -> row

vars == <<connected, call_active, stream_sid, call_sid, session, messages,
          dg_connection, response_task, interrupted, is_ai_speaking,
          ai_spoken_buffer, transcription_buffer, llm_debounce_task, tasks,
          on_msg, status, marks_due, heard, pf, test_conversations,
          test_sent, http_response, call_sessions>>

TaskIds == 1..MaxTasks

\* a reply task: the coroutine's position and locals, and what it has done
\*   st      "none", "pending" (created, not run yet), "run", "done"
\*   cancel  Task.cancel() was called and CancelledError is not raised yet
\*   pc      where the coroutine is suspended
\*   text    user_text; parts: full_response_parts / full_text_ref
\*   buffer  the buffer of llm_stream_generator; llm: the state of its stream
\*   frags   the fragments yielded to the synthesis stream
\*   abuf    len(audio_buffer)
\*   frame   the bytes of audio in the media frame whose send is awaited
\*   skipped a packet was sliced off audio_buffer and not sent
\*   sendfail  a send of it to the transport has raised
\*   spoke   it has sent a media frame; cleared: a clear frame was sent after
\*   a media frame of it; fallback: it issued the <Say> fallback
NoTask == [kind |-> "none", st |-> "none", cancel |-> FALSE, pc |-> "-",
           text |-> <<>>, parts |-> <<>>, buffer |-> <<>>, llm |-> "idle",
           ntok |-> 0, frags |-> <<>>, abuf |-> 0, frame |-> 0,
           skipped |-> FALSE, sendfail |-> FALSE, spoke |-> FALSE,
           cleared |-> FALSE, fallback |-> FALSE]

\* asyncio.create_task(...): the coroutine has not run yet
NewTask(kind, text, parts) == [NoTask EXCEPT !.kind = kind, !.st = "pending",
                                             !.text = text, !.parts = parts]

\* a task that has returned: done() holds, the coroutine's frame is gone;
\* what remains is what it was, whether it sent audio and all its frames
\* up to the mark without being cancelled (pc "played"), and whether it
\* issued the fallback
Returned(rec) ==
    [NoTask EXCEPT !.st = "done", !.kind = rec.kind, !.fallback = rec.fallback,
                   !.pc = IF rec.pc = "marked" /\ rec.spoke /\ ~rec.cancel
                         THEN "played" ELSE "-"]

\* the tasks that have not returned
Live(ts) == { t \in TaskIds : ts[t].st \in {"pending", "run"} }

\* a count of the turns that takes every user message to be answered
HalfLength(msgs) == Len(msgs) \div 2

\* the user turns of a history: len([m for m in messages if m['role'] == 'user'])
RECURSIVE UserTurns(_)
UserTurns(msgs) ==
    IF msgs = <<>> THEN 0
    ELSE (IF msgs[1].role = "user" THEN 1 ELSE 0) + UserTurns(Tail(msgs))

IdleMsg == [pc |-> "idle", sentence |-> <<>>, final |-> FALSE]

NoPf == [fn |-> "none"]

\* session_id values of the requests to the test endpoints; "default" is the
\* serializer's default
TestSessionIds == {"autotest", "default"}

NoResponse == [view |-> "none"]

\* CallSid values of the webhooks
CallSids == {"CAautotest123", "CA2"}

\* no row of the table has this CallSid
NoRow == [id |-> 0]

\* the server process after import: _test_conversations = {}
ServerInit ==
    /\ test_conversations = [sid \in TestSessionIds |-> <<>>]
    /\ test_sent = [sid \in TestSessionIds |-> 0]
    /\ http_response = NoResponse
    /\ call_sessions = [sid \in CallSids |-> NoRow]

\* TwilioMediaConsumer.connect
SessionInit ==
    /\ connected = TRUE
    /\ call_active = TRUE
    /\ stream_sid = ""
    /\ call_sid = ""
    /\ session = FALSE
    /\ messages = <<>>
    /\ dg_connection = "none"
    /\ response_task = 0
    /\ interrupted = FALSE
    /\ is_ai_speaking = FALSE
    /\ ai_spoken_buffer = <<>>
    /\ transcription_buffer = <<>>
    /\ llm_debounce_task = "none"
    /\ tasks = [t \in TaskIds |-> NoTask]
    /\ on_msg = IdleMsg
    /\ marks_due = 0
    /\ heard = <<>>

\* MakeCallView creates the row 'initiated', InboundCallView 'ringing';
\* a call tracked by neither has no row
Init ==
    /\ SessionInit
    /\ status \in {"none", "initiated", "ringing"}
    /\ pf = NoPf
    /\ ServerInit

(***************************************************************************)
(* Helpers of the handlers.                                                 *)
(***************************************************************************)
\* Task.done()
TaskDone(ts, t) == ts[t].st = "done"

\* _cancel_response_task, on the tasks: Task.cancel() of the tracked task
CancelledTasks(ts, rt) ==
    IF rt # 0 /\ ~TaskDone(ts, rt)
    THEN [ts EXCEPT ![rt].cancel = TRUE]
    ELSE ts

\* _cancel_response_task, on self.response_task
CancelledRef(ts, rt) ==
    IF rt # 0 /\ ~TaskDone(ts, rt) THEN 0 ELSE rt

\* asyncio.create_task: the new task takes the place of one that has returned
HasFreeSlot == Live(tasks) # TaskIds

NextTaskId == CHOOSE t \in TaskIds \ Live(tasks) :
                  \A u \in TaskIds \ Live(tasks) : t <= u

\* llm_debounce_task.cancel() when it is set and not done
CancelledDebounce(d) == IF d = "sleeping" THEN "cancelled" ELSE d

\* Task.cancel() has scheduled the wake-up of a task with CancelledError; the
\* event loop runs it before the callbacks of the events it receives later
CancelDue == \E t \in TaskIds : tasks[t].st \in {"pending", "run"} /\ tasks[t].cancel

(***************************************************************************)
(* Transport events: TwilioMediaConsumer.receive and disconnect.            *)
(***************************************************************************)
\* receive, event 'start': _handle_start with _load_session and
\* _start_deepgram; dg_ok is what dg_connection.start(options) returns
ReceiveStart(dg_ok) ==
    /\ connected
    /\ ~CancelDue
    /\ HasFreeSlot
    /\ stream_sid' = "MZ1"
    /\ call_sid' = "CA1"
    /\ status' = "in_progress"
    /\ session' = TRUE
    /\ messages' = << [role |-> "system", content |-> SystemPromptText] >>
    /\ dg_connection' = IF dg_ok THEN "open" ELSE "failed"
    /\ tasks' = [tasks EXCEPT ![NextTaskId] =
                    NewTask("greeting", <<>>, <<GreetingText>>)]
    /\ response_task' = NextTaskId
    /\ UNCHANGED <<connected, call_active, interrupted, is_ai_speaking,
                   ai_spoken_buffer, transcription_buffer, llm_debounce_task,
                   on_msg, marks_due, heard, pf, test_conversations,
                   test_sent, http_response, call_sessions>>

\* receive, event 'stop': _handle_stop
ReceiveStop ==
    /\ connected
    /\ ~CancelDue
    /\ call_active' = FALSE
    /\ tasks' = CancelledTasks(tasks, response_task)
    /\ response_task' = CancelledRef(tasks, response_task)
    /\ is_ai_speaking' = FALSE
    /\ ai_spoken_buffer' = <<>>
    /\ UNCHANGED <<connected, stream_sid, call_sid, session, messages,
                   dg_connection, interrupted, transcription_buffer,
                   llm_debounce_task, on_msg, status, marks_due, heard, pf,
                   test_conversations, test_sent, http_response,
                   call_sessions>>

\* receive, event 'mark' named ai_finished_speaking: the transport returns a
\* mark the consumer has sent
ReceiveMark ==
    /\ connected
    /\ ~CancelDue
    /\ marks_due > 0
    /\ marks_due' = marks_due - 1
    /\ is_ai_speaking' =
          IF response_task = 0 \/ TaskDone(tasks, response_task)
          THEN FALSE ELSE is_ai_speaking
    /\ UNCHANGED <<connected, call_active, stream_sid, call_sid, session,
                   messages, dg_connection, response_task, interrupted,
                   ai_spoken_buffer, transcription_buffer, llm_debounce_task,
                   tasks, on_msg, status, heard, pf, test_conversations,
                   test_sent, http_response, call_sessions>>

\* disconnect, with _update_session_ended
Disconnect ==
    /\ connected
    /\ ~CancelDue
    /\ connected' = FALSE
    /\ call_active' = FALSE
    /\ tasks' = CancelledTasks(tasks, response_task)
    /\ response_task' = CancelledRef(tasks, response_task)
    /\ is_ai_speaking' = FALSE
    /\ ai_spoken_buffer' = <<>>
    /\ dg_connection' = IF dg_connection = "none" THEN "none" ELSE "finished"
    /\ status' = IF session THEN "completed" ELSE status
    /\ UNCHANGED <<stream_sid, call_sid, session, messages, interrupted,
                   transcription_buffer, llm_debounce_task, on_msg,
                   marks_due, heard, pf, test_conversations, test_sent,
                   http_response, call_sessions>>

(***************************************************************************)
(* The call-status webhook: CallStatusView.post, for the call's CallSid.    *)
(***************************************************************************)
\* a webhook that stores CallStatus as Twilio sends it
StatusUnmapped(v) == v

\* status_map.get(call_status_value, call_status_value)
StatusMap(v) ==
    CASE v = "initiated" -> "initiated"
      [] v = "ringing" -> "ringing"
      [] v = "in-progress" -> "in_progress"
      [] v = "completed" -> "completed"
      [] v = "failed" -> "failed"
      [] v = "busy" -> "failed"
      [] v = "no-answer" -> "no_answer"
      [] v = "canceled" -> "failed"
      [] OTHER -> v

CallStatusPost(v) ==
    /\ status' = IF status = "none" THEN status ELSE StatusMap(v)
    /\ UNCHANGED <<connected, call_active, stream_sid, call_sid, session,
                   messages, dg_connection, response_task, interrupted,
                   is_ai_speaking, ai_spoken_buffer, transcription_buffer,
                   llm_debounce_task, tasks, on_msg, marks_due, heard, pf,
                   test_conversations, test_sent, http_response,
                   call_sessions>>

(***************************************************************************)
(* The recognition callback on_message and the debounce task.               *)
(***************************************************************************)
\* heard: the final fragments the aggregator has accepted since the last
\* utterance, each with whether a reset of the buffer has dropped it
HeardFragment(h, sentence) == Append(h, [text |-> sentence, lost |-> FALSE])

RECURSIVE HeardReset(_)
HeardReset(h) ==
    IF h = <<>> THEN <<>>
    ELSE <<[Head(h) EXCEPT !.lost = TRUE]>> \o HeardReset(Tail(h))

\* a clear frame is sent: the tasks whose audio it follows
Cleared(ts) ==
    [t \in TaskIds |->
        IF ts[t].st = "run" /\ ts[t].spoke /\ t # response_task
        THEN [ts[t] EXCEPT !.cleared = TRUE] ELSE ts[t]]

\* on_message from "if not result.is_final" on: a non-empty final fragment
\* resets the interrupted flag, joins the buffer and restarts the debounce
\* task; intr, buf, deb and h are the values reached before that line
FinalAccepted(sentence, final) == final /\ sentence # <<>>

OnMessageTail(sentence, final, intr, buf, deb, h) ==
    /\ FinalAccepted(sentence, final) => Len(h) < MaxFrags
    /\ interrupted' = IF FinalAccepted(sentence, final) THEN FALSE ELSE intr
    /\ transcription_buffer' =
          IF FinalAccepted(sentence, final) THEN Append(buf, sentence) ELSE buf
    /\ llm_debounce_task' =
          IF FinalAccepted(sentence, final) THEN "sleeping" ELSE deb
    /\ heard' =
          IF FinalAccepted(sentence, final) THEN HeardFragment(h, sentence) ELSE h

\* on_message with the echo filter left out
DropsNoiseOnly(echo, noise) == noise

\* on_message returns at once: the echo filter has dropped the fragment, or
\* the fragment is not substantial while a reply is spoken
DropsFragment(echo, noise) == echo \/ noise

\* on_message up to the await of _clear_twilio_buffer's send, or to its end
\* when it does not send
OnMessageCall(raw, final) ==
    /\ ~CancelDue
    /\ dg_connection = "open"
    /\ on_msg.pc = "idle"
    /\ LET sentence == Strip(raw)
           echo == EchoDropped(sentence, is_ai_speaking, ai_spoken_buffer)
           noise == is_ai_speaking /\ ~IsSubstantial(sentence)
           interrupt == is_ai_speaking /\ IsSubstantial(sentence) /\ ~interrupted
           clear == call_active /\ stream_sid # ""
       IN  IF DropsFragment(echo, noise)
           THEN UNCHANGED <<interrupted, tasks, response_task, is_ai_speaking,
                            ai_spoken_buffer, on_msg, transcription_buffer,
                            llm_debounce_task, heard>>
           ELSE IF interrupt /\ clear
           THEN /\ interrupted' = TRUE
                /\ tasks' = CancelledTasks(Cleared(tasks), response_task)
                /\ response_task' = CancelledRef(tasks, response_task)
                /\ is_ai_speaking' = FALSE
                /\ ai_spoken_buffer' = <<>>
                /\ on_msg' = [pc |-> "clear", sentence |-> sentence, final |-> final]
                /\ UNCHANGED <<transcription_buffer, llm_debounce_task, heard>>
           ELSE IF interrupt
           THEN /\ tasks' = CancelledTasks(tasks, response_task)
                /\ response_task' = CancelledRef(tasks, response_task)
                /\ is_ai_speaking' = FALSE
                /\ ai_spoken_buffer' = <<>>
                /\ OnMessageTail(sentence, final, TRUE, <<>>,
                                 CancelledDebounce(llm_debounce_task),
                                 HeardReset(heard))
                /\ UNCHANGED on_msg
           ELSE /\ OnMessageTail(sentence, final, interrupted, transcription_buffer,
                                 llm_debounce_task, heard)
                /\ UNCHANGED <<tasks, response_task, is_ai_speaking,
                               ai_spoken_buffer, on_msg>>
    /\ UNCHANGED <<connected, call_active, stream_sid, call_sid, session,
                   messages, dg_connection, status, marks_due,
                   test_conversations, test_sent, http_response,
                   call_sessions>>

OnMessage(raw, final) == OnMessageCall(raw, final) /\ UNCHANGED pf

\* on_message resumed after the send of the clear frame: the rest of
\* _clear_twilio_buffer, the reset of the buffer and of the debounce task,
\* and the rest of on_message
OnMessageResume ==
    /\ ~CancelDue
    /\ on_msg.pc = "clear"
    /\ on_msg' = IdleMsg
    /\ is_ai_speaking' = FALSE
    /\ OnMessageTail(on_msg.sentence, on_msg.final, interrupted, <<>>,
                     CancelledDebounce(llm_debounce_task), HeardReset(heard))
    /\ UNCHANGED <<connected, call_active, stream_sid, call_sid, session,
                   messages, dg_connection, response_task, ai_spoken_buffer,
                   tasks, status, marks_due, pf, test_conversations,
                   test_sent, http_response, call_sessions>>

\* the user turns of the history and those the tasks not yet run will add
OpenTurns ==
    UserTurns(messages)
      + Cardinality({ t \in TaskIds : tasks[t].st = "pending" /\ tasks[t].kind = "reply" })

\* _process_user_buffer once asyncio.sleep(0.4) has returned
DebounceFire ==
    /\ ~CancelDue
    /\ llm_debounce_task = "sleeping"
    /\ llm_debounce_task' = "done"
    /\ transcription_buffer' = <<>>
    /\ heard' = <<>>
    /\ LET full_sentence == FullSentence(transcription_buffer)
       IN  IF full_sentence = <<>>
           THEN UNCHANGED <<tasks, response_task, is_ai_speaking, ai_spoken_buffer>>
           ELSE /\ HasFreeSlot
                /\ IF END_CALL_PATTERN(full_sentence) THEN TRUE
                   ELSE OpenTurns < MaxTurns
                /\ is_ai_speaking' = FALSE
                /\ ai_spoken_buffer' = <<>>
                /\ response_task' = NextTaskId
                /\ tasks' =
                      [CancelledTasks(tasks, response_task) EXCEPT ![NextTaskId] =
                          IF END_CALL_PATTERN(full_sentence)
                          THEN NewTask("goodbye", <<>>, <<GoodbyeText>>)
                          ELSE NewTask("reply", full_sentence, <<>>)]
    /\ UNCHANGED <<connected, call_active, stream_sid, call_sid, session,
                   messages, dg_connection, interrupted, on_msg, status,
                   marks_due, pf, test_conversations, test_sent,
                   http_response, call_sessions>>

(***************************************************************************)
(* The reply tasks: _generate_and_speak (kind "reply") and                  *)
(* _handle_ai_response (kinds "greeting" and "goodbye"), one action per     *)
(* stretch of code between two awaits.                                      *)
(***************************************************************************)
\* the coroutine of task t can take its next step
Runnable(t) == ~CancelDue /\ tasks[t].st = "run"

\* the finally block of _generate_and_speak: the text generated so far is
\* appended to the history when it is not empty
WithAssistantTurn(msgs, rec) ==
    IF rec.kind = "reply" /\ Strip(Concat(rec.parts)) # <<>>
    THEN Append(msgs, [role |-> "assistant", content |-> Strip(Concat(rec.parts))])
    ELSE msgs

\* the coroutine returns: the finally block of _handle_ai_response, then
\* the finally block of _generate_and_speak
Finish(t, rec) ==
    /\ is_ai_speaking' = FALSE
    /\ messages' = WithAssistantTurn(messages, rec)
    /\ tasks' = [tasks EXCEPT ![t] = Returned(rec)]

\* a reply that starts and leaves the interrupted flag as it finds it
KeptAtStart(intr) == intr

\* _handle_ai_response, "self.interrupted = False": the flag a reply leaves
\* as it starts to speak
ResetAtStart(intr) == FALSE

\* the first step of the task: the history gets the user turn, and
\* _handle_ai_response runs to its first await
TaskStart(t) ==
    /\ ~CancelDue
    /\ tasks[t].st = "pending"
    /\ messages' =
          IF tasks[t].kind = "reply"
          THEN Append(messages, [role |-> "user", content |-> tasks[t].text])
          ELSE messages
    /\ IF stream_sid = "" \/ ~call_active
       THEN /\ tasks' = [tasks EXCEPT ![t] = Returned(tasks[t])]
            /\ UNCHANGED <<is_ai_speaking, interrupted>>
       ELSE /\ tasks' = [tasks EXCEPT ![t].st = "run", ![t].pc = "tts"]
            /\ is_ai_speaking' = TRUE
            /\ interrupted' = ResetAtStart(interrupted)
    /\ UNCHANGED <<connected, call_active, stream_sid, call_sid, session,
                   dg_connection, response_task, ai_spoken_buffer,
                   transcription_buffer, llm_debounce_task, on_msg, status,
                   marks_due, heard, pf, test_conversations, test_sent,
                   http_response, call_sessions>>

\* CancelledError is raised in the task where it is suspended
TaskCancelled(t) ==
    /\ tasks[t].st \in {"pending", "run"}
    /\ tasks[t].cancel
    /\ IF tasks[t].st = "pending"
       THEN /\ tasks' = [tasks EXCEPT ![t] = Returned(tasks[t])]
            /\ UNCHANGED <<is_ai_speaking, messages>>
       ELSE Finish(t, tasks[t])
    /\ UNCHANGED <<connected, call_active, stream_sid, call_sid, session,
                   dg_connection, response_task, interrupted,
                   ai_spoken_buffer, transcription_buffer, llm_debounce_task,
                   on_msg, status, marks_due, heard, pf, test_conversations,
                   test_sent, http_response, call_sessions>>

\* llm_stream_generator: groq_client.chat.completions.create returns the
\* stream, or raises and the apology is yielded
LLMOpen(t, ok) ==
    /\ Runnable(t)
    /\ tasks[t].kind = "reply"
    /\ tasks[t].pc = "tts"
    /\ tasks[t].llm = "idle"
    /\ tasks' = [tasks EXCEPT ![t] =
          IF ok THEN [@ EXCEPT !.llm = "open"]
          ELSE [@ EXCEPT !.llm = "err",
                         !.parts = Append(@, ApologyText),
                         !.frags = Append(@, ApologyText)]]
    /\ UNCHANGED <<connected, call_active, stream_sid, call_sid, session,
                   messages, dg_connection, response_task, interrupted,
                   is_ai_speaking, ai_spoken_buffer, transcription_buffer,
                   llm_debounce_task, on_msg, status, marks_due, heard, pf,
                   test_conversations, test_sent, http_response,
                   call_sessions>>

\* llm_stream_generator, the body of "if content:" on the locals of rec
Consumed(rec, content) ==
    IF content = <<>> THEN rec
    ELSE [rec EXCEPT !.parts = Append(@, content),
                     !.frags = @ \o ChunkYield(rec.buffer \o content),
                     !.buffer = ChunkKeep(rec.buffer \o content)]

\* llm_stream_generator, the flush after the loop
Flushed(rec) == [rec EXCEPT !.frags = @ \o FlushYield(rec.buffer)]

\* llm_stream_generator: one chunk of the stream
LLMChunk(t, content) ==
    /\ Runnable(t)
    /\ tasks[t].kind = "reply"
    /\ tasks[t].pc = "tts"
    /\ tasks[t].llm = "open"
    /\ IF interrupted \/ ~call_active THEN TRUE ELSE tasks[t].ntok < MaxTokens
    /\ IF interrupted \/ ~call_active
       THEN \* break, then the flush of the remaining buffer
            /\ tasks' = [tasks EXCEPT ![t] = [Flushed(@) EXCEPT !.llm = "end"]]
            /\ UNCHANGED ai_spoken_buffer
       ELSE /\ tasks' = [tasks EXCEPT ![t] =
                  [Consumed(@, content) EXCEPT !.ntok = @ + 1]]
            /\ ai_spoken_buffer' = ai_spoken_buffer \o content
    /\ UNCHANGED <<connected, call_active, stream_sid, call_sid, session,
                   messages, dg_connection, response_task, interrupted,
                   is_ai_speaking, transcription_buffer, llm_debounce_task,
                   on_msg, status, marks_due, heard, pf, test_conversations,
                   test_sent, http_response, call_sessions>>

\* llm_stream_generator: the stream ends, the remaining buffer is flushed
LLMEnd(t) ==
    /\ Runnable(t)
    /\ tasks[t].kind = "reply"
    /\ tasks[t].pc = "tts"
    /\ tasks[t].llm = "open"
    /\ tasks' = [tasks EXCEPT ![t] = [Flushed(@) EXCEPT !.llm = "end"]]
    /\ UNCHANGED <<connected, call_active, stream_sid, call_sid, session,
                   messages, dg_connection, response_task, interrupted,
                   is_ai_speaking, ai_spoken_buffer, transcription_buffer,
                   llm_debounce_task, on_msg, status, marks_due, heard, pf,
                   test_conversations, test_sent, http_response,
                   call_sessions>>

\* llm_stream_generator: the stream raises, the apology is yielded
LLMFail(t) ==
    /\ Runnable(t)
    /\ tasks[t].kind = "reply"
    /\ tasks[t].pc = "tts"
    /\ tasks[t].llm = "open"
    /\ tasks' = [tasks EXCEPT ![t] =
          [@ EXCEPT !.llm = "err",
                    !.parts = Append(@, ApologyText),
                    !.frags = Append(@, ApologyText)]]
    /\ UNCHANGED <<connected, call_active, stream_sid, call_sid, session,
                   messages, dg_connection, response_task, interrupted,
                   is_ai_speaking, ai_spoken_buffer, transcription_buffer,
                   llm_debounce_task, on_msg, status, marks_due, heard, pf,
                   test_conversations, test_sent, http_response,
                   call_sessions>>

\* a guard that lets no frame through
NeverSend == FALSE

\* the guard with the test of call_active left out
NotInterrupted == ~interrupted

\* the guard of every send of _handle_ai_response
MaySend == ~interrupted /\ call_active

\* the code after the async for loop, from the flush of the remaining audio
\* to the first send it awaits, or to the end of the coroutine
AfterLoop(t, rec) ==
    IF rec.abuf > 0 /\ MaySend
    THEN /\ tasks' = [tasks EXCEPT ![t] =
                         [rec EXCEPT !.pc = "flushed", !.frame = rec.abuf,
                                     !.spoke = TRUE]]
         /\ UNCHANGED <<is_ai_speaking, messages, marks_due>>
    ELSE IF MaySend
    THEN /\ tasks' = [tasks EXCEPT ![t] = [rec EXCEPT !.pc = "marked"]]
         /\ marks_due' = IF marks_due < MaxMarks THEN marks_due + 1 ELSE marks_due
         /\ UNCHANGED <<is_ai_speaking, messages>>
    ELSE /\ Finish(t, rec)
         /\ UNCHANGED marks_due

\* len(audio_buffer[:CHUNK_SIZE])
SliceLen(n) == IF n < CHUNK_SIZE THEN n ELSE CHUNK_SIZE

\* the while loop over audio_buffer, to the first send it awaits or to the
\* next chunk of the synthesis stream
SendLoop(t, rec) ==
    IF rec.abuf >= CHUNK_SIZE /\ MaySend
    THEN tasks' = [tasks EXCEPT ![t] =
                      [rec EXCEPT !.abuf = @ - SliceLen(rec.abuf),
                                  !.frame = SliceLen(rec.abuf),
                                  !.pc = "sending", !.spoke = TRUE]]
    ELSE tasks' = [tasks EXCEPT ![t] =
                      [rec EXCEPT !.abuf = @ % CHUNK_SIZE, !.frame = 0,
                                  !.skipped = @ \/ rec.abuf >= CHUNK_SIZE,
                                  !.pc = "tts"]]

\* the synthesis stream has text to speak
HasText(t) == tasks[t].kind # "reply" \/ tasks[t].frags # <<>>

\* the text iterator of the synthesis stream is exhausted
TextEnded(t) == tasks[t].kind # "reply" \/ tasks[t].llm \in {"end", "err"}

\* one chunk of audio_generator
TTSChunk(t, size) ==
    /\ Runnable(t)
    /\ tasks[t].pc = "tts"
    /\ HasText(t)
    /\ IF interrupted \/ ~call_active
       THEN AfterLoop(t, tasks[t])
       ELSE /\ SendLoop(t, [tasks[t] EXCEPT !.abuf = @ + size])
            /\ UNCHANGED <<is_ai_speaking, messages, marks_due>>
    /\ UNCHANGED <<connected, call_active, stream_sid, call_sid, session,
                   dg_connection, response_task, interrupted,
                   ai_spoken_buffer, transcription_buffer, llm_debounce_task,
                   on_msg, status, heard, pf, test_conversations, test_sent,
                   http_response, call_sessions>>

\* the send of a media frame of the while loop has returned
SendResume(t) ==
    /\ Runnable(t)
    /\ tasks[t].pc = "sending"
    /\ SendLoop(t, tasks[t])
    /\ UNCHANGED <<connected, call_active, stream_sid, call_sid, session,
                   messages, dg_connection, response_task, interrupted,
                   is_ai_speaking, ai_spoken_buffer, transcription_buffer,
                   llm_debounce_task, on_msg, status, marks_due, heard, pf,
                   test_conversations, test_sent, http_response,
                   call_sessions>>

\* audio_generator is exhausted
TTSEnd(t) ==
    /\ Runnable(t)
    /\ tasks[t].pc = "tts"
    /\ TextEnded(t)
    /\ AfterLoop(t, tasks[t])
    /\ UNCHANGED <<connected, call_active, stream_sid, call_sid, session,
                   dg_connection, response_task, interrupted,
                   ai_spoken_buffer, transcription_buffer, llm_debounce_task,
                   on_msg, status, heard, pf, test_conversations, test_sent,
                   http_response, call_sessions>>

\* the send of the flushed media frame has returned
FlushResume(t) ==
    /\ Runnable(t)
    /\ tasks[t].pc = "flushed"
    /\ AfterLoop(t, [tasks[t] EXCEPT !.abuf = 0, !.frame = 0])
    /\ UNCHANGED <<connected, call_active, stream_sid, call_sid, session,
                   dg_connection, response_task, interrupted,
                   ai_spoken_buffer, transcription_buffer, llm_debounce_task,
                   on_msg, status, heard, pf, test_conversations, test_sent,
                   http_response, call_sessions>>

\* the send of the mark frame has returned
MarkResume(t) ==
    /\ Runnable(t)
    /\ tasks[t].pc = "marked"
    /\ Finish(t, tasks[t])
    /\ UNCHANGED <<connected, call_active, stream_sid, call_sid, session,
                   dg_connection, response_task, interrupted,
                   ai_spoken_buffer, transcription_buffer, llm_debounce_task,
                   on_msg, status, marks_due, heard, pf, test_conversations,
                   test_sent, http_response, call_sessions>>

\* audio_generator raises: the except clause, to the await of _log_event
TTSError(t) ==
    /\ Runnable(t)
    /\ tasks[t].pc = "tts"
    /\ tasks' = [tasks EXCEPT ![t].pc = "logging"]
    /\ UNCHANGED <<connected, call_active, stream_sid, call_sid, session,
                   messages, dg_connection, response_task, interrupted,
                   is_ai_speaking, ai_spoken_buffer, transcription_buffer,
                   llm_debounce_task, on_msg, status, marks_due, heard, pf,
                   test_conversations, test_sent, http_response,
                   call_sessions>>

\* the except clause after _log_event: the Twilio <Say> fallback when there
\* is text to say, which succeeds (ok) or raises, then the end of the coroutine
Fallback(t, ok) ==
    /\ Runnable(t)
    /\ tasks[t].pc = "logging"
    /\ LET full_text == Strip(Concat(tasks[t].parts))
           tried == full_text # <<>> /\ call_active /\ call_sid # ""
       IN  /\ tried \/ ok
           /\ Finish(t, [tasks[t] EXCEPT !.fallback = tried /\ ok])
    /\ UNCHANGED <<connected, call_active, stream_sid, call_sid, session,
                   dg_connection, response_task, interrupted,
                   ai_spoken_buffer, transcription_buffer, llm_debounce_task,
                   on_msg, status, marks_due, heard, pf, test_conversations,
                   test_sent, http_response, call_sessions>>

(***************************************************************************)
(* The session of one call. The transport sends the start event once, when  *)
(* the stream begins.                                                       *)
(***************************************************************************)
StreamStart(dg_ok) ==
    /\ stream_sid = ""
    /\ ReceiveStart(dg_ok)

\* a step of a reply task
TaskStep ==
    \/ \E t \in TaskIds : TaskStart(t)
    \/ \E t \in TaskIds : TaskCancelled(t)
    \/ \E t \in TaskIds, size \in AudioSizes : TTSChunk(t, size)
    \/ \E t \in TaskIds : SendResume(t)
    \/ \E t \in TaskIds : TTSEnd(t)
    \/ \E t \in TaskIds : FlushResume(t)
    \/ \E t \in TaskIds : MarkResume(t)

\* a step of the generation stream of a reply task
LLMStep ==
    \/ \E t \in TaskIds, ok \in BOOLEAN : LLMOpen(t, ok)
    \/ \E t \in TaskIds, content \in Tokens : LLMChunk(t, content)
    \/ \E t \in TaskIds : LLMEnd(t)
    \/ \E t \in TaskIds : LLMFail(t)

\* a failure of the synthesis stream and what follows it
TTSFailStep ==
    \/ \E t \in TaskIds : TTSError(t)
    \/ \E t \in TaskIds, ok \in BOOLEAN : Fallback(t, ok)

Next ==
    \/ \E dg_ok \in BOOLEAN : StreamStart(dg_ok)
    \/ ReceiveStop
    \/ ReceiveMark
    \/ Disconnect
    \/ \E raw \in FragTexts, final \in BOOLEAN : OnMessage(raw, final)
    \/ OnMessageResume
    \/ DebounceFire
    \/ TaskStep
    \/ LLMStep
    \/ TTSFailStep

Spec == Init /\ [][Next]_vars

(***************************************************************************)
(* The session with a transport that repeats the start event, which         *)
(* receive accepts at any time; the recognition service sends final         *)
(* transcripts and the generation service has not answered yet.             *)
(***************************************************************************)
NextRestart ==
    \/ \E dg_ok \in BOOLEAN : ReceiveStart(dg_ok)
    \/ \E raw \in FragTexts : OnMessage(raw, TRUE)
    \/ OnMessageResume
    \/ DebounceFire
    \/ TaskStep

SpecRestart == Init /\ [][NextRestart]_vars

(***************************************************************************)
(* The status of the call's row: the webhook, the start of the stream and   *)
(* the end of the connection, in any order.                                 *)
(***************************************************************************)
NextStatus ==
    \/ \E v \in TwilioStatuses : CallStatusPost(v)
    \/ \E dg_ok \in BOOLEAN : StreamStart(dg_ok)
    \/ ReceiveStop
    \/ Disconnect
    \/ \E t \in TaskIds : TaskStart(t)
    \/ \E t \in TaskIds : TaskCancelled(t)
    \/ \E t \in TaskIds : TTSEnd(t)
    \/ \E t \in TaskIds : MarkResume(t)

SpecStatus == Init /\ [][NextStatus]_vars

(***************************************************************************)
(* The echo filter of on_message on its own: every transcript and every     *)
(* echo baseline of a small alphabet, and the transcripts of the example.   *)
(***************************************************************************)
EchoAlphabet == {"a", "B", ".", " "}

EchoBaselineExample ==
    <<"t","h","e"," ","w","e","a","t","h","e","r"," ","i","s"," ","n","i","c","e"," ","t","o","d","a","y">>

EchoHeardExample ==
    <<"w","e","a","t","h","e","r"," ","i","s"," ","n","i","c","e">>

EchoOtherExample ==
    <<"w","h","a","t"," ","t","i","m","e"," ","i","s"," ","i","t">>

EchoTexts ==
    TextsUpTo(EchoAlphabet, MaxStrLen)
        \cup {EchoBaselineExample, EchoHeardExample, EchoOtherExample}

InitEcho ==
    /\ SessionInit
    /\ status = "none"
    /\ ServerInit
    /\ pf \in { [fn |-> "echo", st |-> "in", raw |-> raw, spoken |-> spoken,
                 speaking |-> speaking, dropped |-> FALSE] :
                 raw \in EchoTexts, spoken \in EchoTexts, speaking \in BOOLEAN }

\* on_message from the strip of the transcript to the return of the echo filter
EchoFilter ==
    /\ pf.st = "in"
    /\ pf' = [pf EXCEPT !.st = "out",
                        !.dropped = EchoDropped(Strip(pf.raw), pf.speaking, pf.spoken)]
    /\ UNCHANGED <<connected, call_active, stream_sid, call_sid, session,
                   messages, dg_connection, response_task, interrupted,
                   is_ai_speaking, ai_spoken_buffer, transcription_buffer,
                   llm_debounce_task, tasks, on_msg, status, marks_due,
                   heard, test_conversations, test_sent, http_response,
                   call_sessions>>

SpecEcho == InitEcho /\ [][EchoFilter]_vars

(***************************************************************************)
(* The semantic chunker of llm_stream_generator on its own: every stream    *)
(* of at most MaxStream contents, and the stream of the example.            *)
(***************************************************************************)
ChunkTokens == { <<>>, <<"a">>, <<".">>, <<" ">>, <<"a","?","b">> }

ExampleStream ==
    <<<<"H","i">>,
      <<" ","t","h","e","r","e">>,
      <<"."," ">>,
      <<"H","o","w">>,
      <<" ","a","r","e">>,
      <<" ","y","o","u">>,
      <<"?">>>>

Streams == TextsUpTo(ChunkTokens, MaxStream) \cup {ExampleStream}

InitChunk ==
    /\ SessionInit
    /\ status = "none"
    /\ ServerInit
    /\ pf \in { [fn |-> "chunk", st |-> "run", stream |-> s, rest |-> s,
                 parts |-> <<>>, buffer |-> <<>>, frags |-> <<>>] : s \in Streams }

\* one chunk of the stream
ChunkToken ==
    /\ pf.st = "run"
    /\ pf.rest # <<>>
    /\ pf' = [Consumed(pf, Head(pf.rest)) EXCEPT !.rest = Tail(pf.rest)]
    /\ UNCHANGED <<connected, call_active, stream_sid, call_sid, session,
                   messages, dg_connection, response_task, interrupted,
                   is_ai_speaking, ai_spoken_buffer, transcription_buffer,
                   llm_debounce_task, tasks, on_msg, status, marks_due,
                   heard, test_conversations, test_sent, http_response,
                   call_sessions>>

\* the stream ends
ChunkFlush ==
    /\ pf.st = "run"
    /\ pf.rest = <<>>
    /\ pf' = [Flushed(pf) EXCEPT !.st = "end"]
    /\ UNCHANGED <<connected, call_active, stream_sid, call_sid, session,
                   messages, dg_connection, response_task, interrupted,
                   is_ai_speaking, ai_spoken_buffer, transcription_buffer,
                   llm_debounce_task, tasks, on_msg, status, marks_due,
                   heard, test_conversations, test_sent, http_response,
                   call_sessions>>

NextChunk == ChunkToken \/ ChunkFlush

SpecChunk == InitChunk /\ [][NextChunk]_vars

(***************************************************************************)
(* What the transport is sent in a step, and other observations.            *)
(***************************************************************************)
\* task t sends a media frame in this step: it reaches an await of a send
\* of the while loop or of the flush
SentMedia(t) ==
    /\ tasks'[t].pc \in {"sending", "flushed"}
    /\ tasks[t].pc # tasks'[t].pc \/ tasks[t].abuf # tasks'[t].abuf

\* task t sends its mark frame in this step
SentMark(t) == tasks'[t].pc = "marked" /\ tasks[t].pc # "marked"

\* a reply task is created in this step
TaskCreated(t) == tasks'[t].st = "pending" /\ tasks[t].st # "pending"

\* the debounce timer fires in this step
DebounceFired == llm_debounce_task = "sleeping" /\ llm_debounce_task' = "done"

IsPrefix(s, t) == Len(s) <= Len(t) /\ SubSeq(t, 1, Len(s)) = s

\* the texts of the fragments heard, all of them and those no reset dropped
RECURSIVE Texts(_)
Texts(h) == IF h = <<>> THEN <<>> ELSE <<Head(h).text>> \o Texts(Tail(h))

RECURSIVE Kept(_)
Kept(h) ==
    IF h = <<>> THEN <<>>
    ELSE (IF Head(h).lost THEN <<>> ELSE <<Head(h).text>>) \o Kept(Tail(h))

\* the step hands on utterance u and nothing else: a goodbye task when u
\* holds an end-call phrase, a reply task for u otherwise
HandedOn(u) ==
    IF response_task' = 0 THEN FALSE
    ELSE /\ TaskCreated(response_task')
         /\ IF END_CALL_PATTERN(u)
            THEN tasks'[response_task'].kind = "goodbye"
            ELSE /\ tasks'[response_task'].kind = "reply"
                 /\ tasks'[response_task'].text = u
         /\ transcription_buffer' = <<>>

(***************************************************************************)
(* C1 and C2: the reply tasks of a session.                                 *)
(***************************************************************************)
\* C1: once a newer reply task has been started, no media frame and no mark
\* frame of an earlier reply task is sent: every frame sent is a frame of
\* the task started last, the one self.response_task holds.
C1_OnlyNewestSends ==
    [][\A t \in TaskIds : (SentMedia(t) \/ SentMark(t)) => t = response_task]_vars

\* C2: at most one reply task is active: the tasks that have neither
\* returned nor been cancelled are never two.
C2_AtMostOneActive ==
    Cardinality({ t \in Live(tasks) : ~tasks[t].cancel }) <= 1

Plain(text) ==
    LET low == [i \in 1..Len(text) |-> LowerChar(text[i])]
        keep == { i \in 1..Len(low) : IsWordChar(low[i]) \/ IsSpace(low[i]) }
        nth(k) == CHOOSE i \in keep : Cardinality({ j \in keep : j <= i }) = k
    IN  [k \in 1..Cardinality(keep) |-> low[nth(k)]]

\* a occurs in b
Occurs(a, b) ==
    \E i \in 1..(Len(b) + 1) :
        /\ i + Len(a) - 1 <= Len(b)
        /\ \A k \in 1..Len(a) : b[i + k - 1] = a[k]

\* one of the two is a substring of the other, punctuation and case aside
Overlap(fragment, baseline) ==
    \/ Occurs(Plain(fragment), Plain(baseline))
    \/ Occurs(Plain(baseline), Plain(fragment))

\* C4, as the code has it: a fragment is dropped exactly when the system is
\* speaking, the echo baseline is not empty, and the fragment and the
\* baseline overlap; with an empty baseline, as when the system is not
\* speaking, nothing is dropped.
C4_EchoFilter ==
    (pf.fn = "echo" /\ pf.st = "out") =>
        (pf.dropped <=>
            (pf.speaking /\ pf.spoken # <<>> /\ Overlap(Strip(pf.raw), pf.spoken)))

\* C4 as stated: a fragment is dropped exactly when the system is speaking
\* and the fragment and the baseline overlap.
C4_EchoFilterStated ==
    (pf.fn = "echo" /\ pf.st = "out") =>
        (pf.dropped <=> (pf.speaking /\ Overlap(Strip(pf.raw), pf.spoken)))

\* "weather is nice" was dropped against "the weather is nice today"
C4_ExampleDropped ==
    /\ pf.fn = "echo"
    /\ pf.st = "out"
    /\ pf.speaking
    /\ pf.spoken = EchoBaselineExample
    /\ pf.raw = EchoHeardExample
    /\ pf.dropped

(***************************************************************************)
(* C5: the interruption.                                                    *)
(***************************************************************************)
\* C5: a reply task whose audio was playing when a substantial fragment
\* interrupted (it was cancelled, or the clear frame followed its audio)
\* sends no further media frame.
C5_NoMediaAfterInterrupt ==
    [][\A t \in TaskIds :
          (tasks[t].st = "run" /\ (tasks[t].cancel \/ tasks[t].cleared))
              => ~SentMedia(t)]_vars

(***************************************************************************)
(* C6: the fragments handed to synthesis.                                   *)
(***************************************************************************)
\* a fragment without the space the chunker has put after it
Unpadded(fragment) == SubSeq(fragment, 1, Len(fragment) - 1)

RECURSIVE ConcatUnpadded(_)
ConcatUnpadded(frags) ==
    IF frags = <<>> THEN <<>>
    ELSE Unpadded(Head(frags)) \o ConcatUnpadded(Tail(frags))

\* C6, as the code has it: every fragment handed to synthesis ends with a
\* space the chunker has added; without those spaces the fragments
\* concatenate to the beginning of the streamed text, and what they leave
\* out of its end is white space only.
C6_FragmentsPadded ==
    (pf.fn = "chunk" /\ pf.st = "end") =>
        LET text == Concat(pf.stream)
            said == ConcatUnpadded(pf.frags)
        IN  /\ \A i \in 1..Len(pf.frags) :
                  /\ pf.frags[i] # <<>>
                  /\ pf.frags[i][Len(pf.frags[i])] = " "
            /\ IsPrefix(said, text)
            /\ Strip(SubSeq(text, Len(said) + 1, Len(text))) = <<>>
            /\ Concat(pf.parts) = text

\* C6 as stated: the fragments concatenate to the streamed text.
C6_FragmentsConcatenate ==
    (pf.fn = "chunk" /\ pf.st = "end") => Concat(pf.frags) = Concat(pf.stream)

\* the stream of the example has ended, with the fragments "Hi there. " and
\* " How are you? "
C6_ExampleChunked ==
    /\ pf.fn = "chunk"
    /\ pf.st = "end"
    /\ pf.stream = ExampleStream
    /\ pf.frags = << <<"H","i"," ","t","h","e","r","e","."," ">>,
                     <<" ","H","o","w"," ","a","r","e"," ","y","o","u","?"," ">> >>

(***************************************************************************)
(* C7: the end of the call.                                                 *)
(***************************************************************************)
\* C7: once a goodbye task has played to its end, no later utterance is
\* answered: no reply task is created.
C7_NoReplyAfterGoodbye ==
    [][(\E g \in TaskIds : tasks[g].kind = "goodbye" /\ tasks[g].pc = "played")
          => \A t \in TaskIds : ~TaskCreated(t)]_vars

(***************************************************************************)
(* C8: the status of the call's row.                                        *)
(***************************************************************************)
TerminalStatuses == {"completed", "failed", "no_answer"}

\* C8: a status that is completed, failed or no_answer does not change any
\* more, and a row that is not in_progress becomes so only when it is
\* initiated or ringing.
C8_StatusForward ==
    [][/\ status \in TerminalStatuses => status' = status
       /\ (status # "none" /\ status # "in_progress" /\ status' = "in_progress")
             => status \in {"initiated", "ringing"}]_vars

(***************************************************************************)
(* C9: the history.                                                         *)
(***************************************************************************)
\* C9: the history only grows at its end: the history before a step is a
\* prefix of the history after it.
C9_HistoryAppendOnly == [][IsPrefix(messages, messages')]_vars

(***************************************************************************)
(* C10: every utterance is answered.                                        *)
(***************************************************************************)
\* C10: a reply task that returns while the session is connected and the
\* call active, without having been cancelled or interrupted, has sent
\* audio or has issued the fallback.
C10_SpokeOrFellBack ==
    [][\A t \in TaskIds :
          (/\ tasks[t].kind = "reply"
           /\ tasks[t].st = "run"
           /\ tasks'[t].st = "done"
           /\ ~tasks[t].cancel
           /\ ~interrupted
           /\ connected /\ call_active)
              => (tasks[t].spoke \/ tasks'[t].fallback)]_vars

(***************************************************************************)
(* The test endpoints of views.py: TestChatView and TestVoiceView, which    *)
(* share the conversations of _test_conversations.                          *)
(***************************************************************************)
\* system_prompt values of the requests: "" for a request without one
TestPrompts == { <<>>, <<"p">> }

\* the reply of the generation service
TestReplyText == <<"o","k">>

\* data.get('system_prompt') or the default prompt
TestSystemPrompt(prompt) == IF prompt = <<>> THEN SystemPromptText ELSE prompt

\* "Get or create conversation", then the user message is appended
WithTestMessage(convs, sid, prompt, message) ==
    LET conversation == IF convs[sid] = <<>>
                    THEN << [role |-> "system", content |-> TestSystemPrompt(prompt)] >>
                    ELSE convs[sid]
    IN  [convs EXCEPT ![sid] =
            Append(conversation, [role |-> "user", content |-> message])]

\* the reply of the generation service is appended
WithTestReply(convs, sid) ==
    [convs EXCEPT ![sid] =
        Append(@, [role |-> "assistant", content |-> TestReplyText])]

\* TestChatView.post with a valid request; llm_ok: the generation service
\* answers, otherwise its call raises
TestChatPost(sid, prompt, message, llm_ok) ==
    /\ test_sent[sid] < MaxPosts
    /\ test_sent' = [test_sent EXCEPT ![sid] = @ + 1]
    /\ LET asked == WithTestMessage(test_conversations, sid, prompt, message)
       IN  IF llm_ok
           THEN /\ test_conversations' = WithTestReply(asked, sid)
                /\ http_response' =
                      [view |-> "test-chat", code |-> 200, session_id |-> sid,
                       turn |-> UserTurns(WithTestReply(asked, sid)[sid])]
           ELSE /\ test_conversations' = asked
                /\ http_response' =
                      [view |-> "test-chat", code |-> 500, session_id |-> sid,
                       turn |-> 0]
    /\ UNCHANGED <<connected, call_active, stream_sid, call_sid, session,
                   messages, dg_connection, response_task, interrupted,
                   is_ai_speaking, ai_spoken_buffer, transcription_buffer,
                   llm_debounce_task, tasks, on_msg, status, marks_due,
                   heard, pf, call_sessions>>

\* TestVoiceView.post with a valid request; tts_ok: the synthesis service
\* returns the audio, otherwise the text is returned without audio
TestVoicePost(sid, prompt, message, llm_ok, tts_ok) ==
    /\ test_sent[sid] < MaxPosts
    /\ test_sent' = [test_sent EXCEPT ![sid] = @ + 1]
    /\ LET asked == WithTestMessage(test_conversations, sid, prompt, message)
       IN  IF llm_ok
           THEN /\ test_conversations' = WithTestReply(asked, sid)
                /\ http_response' =
                      [view |-> "test-voice", code |-> 200, session_id |-> sid,
                       turn |-> 0, audio |-> tts_ok]
           ELSE /\ test_conversations' = asked
                /\ http_response' =
                      [view |-> "test-voice", code |-> 500, session_id |-> sid,
                       turn |-> 0, audio |-> FALSE]
    /\ UNCHANGED <<connected, call_active, stream_sid, call_sid, session,
                   messages, dg_connection, response_task, interrupted,
                   is_ai_speaking, ai_spoken_buffer, transcription_buffer,
                   llm_debounce_task, tasks, on_msg, status, marks_due,
                   heard, pf, call_sessions>>

\* the messages of the requests
TestMessages == { <<"h","i">> }

NextTest ==
    \/ \E sid \in TestSessionIds, prompt \in TestPrompts, message \in TestMessages,
          llm_ok \in BOOLEAN : TestChatPost(sid, prompt, message, llm_ok)
    \/ \E sid \in TestSessionIds, prompt \in TestPrompts, message \in TestMessages,
          llm_ok \in BOOLEAN, tts_ok \in BOOLEAN :
             TestVoicePost(sid, prompt, message, llm_ok, tts_ok)

SpecTest == Init /\ [][NextTest]_vars

(***************************************************************************)
(* C11: the turns of a test conversation.                                   *)
(***************************************************************************)
\* C11: the conversation of a session_id persists between requests, and
\* the turn test-chat returns is the number of messages sent so far under
\* that session_id, to test-chat or to test-voice, answered or not.
C11_TurnIsMessagesSent ==
    /\ (http_response.view = "test-chat" /\ http_response.code = 200)
          => http_response.turn = test_sent[http_response.session_id]
    /\ \A sid \in TestSessionIds :
          UserTurns(test_conversations[sid]) = test_sent[sid]

\* the second message under "autotest" has returned turn 2
C11_SecondTurn ==
    /\ http_response.view = "test-chat"
    /\ http_response.code = 200
    /\ http_response.session_id = "autotest"
    /\ http_response.turn = 2
    /\ test_sent["autotest"] = 2

(***************************************************************************)
(* The webhooks of views.py on the CallSession table: InboundCallView,      *)
(* CallStatusView and CallDetailView.                                       *)
(***************************************************************************)
\* From values of the inbound webhook; 'unknown' is its default
FromNumbers == {"+919999999999", "unknown"}

ToNumber == "+16812816509"

\* the primary key of a new row: uuid.uuid4, never one in use
FreshId == Cardinality({ sid \in CallSids : call_sessions[sid] # NoRow }) + 1

\* InboundCallView.post; domain_ok: DOMAIN is set in the environment
InboundPost(sid, from_number, domain_ok) ==
    /\ IF ~domain_ok
       THEN /\ http_response' = [view |-> "inbound", code |-> 500, call_sid |-> sid]
            /\ UNCHANGED call_sessions
       ELSE /\ http_response' = [view |-> "inbound", code |-> 200, call_sid |-> sid]
            /\ call_sessions' =
                  IF call_sessions[sid] # NoRow THEN call_sessions
                  ELSE [call_sessions EXCEPT ![sid] =
                          [id |-> FreshId, call_sid |-> sid,
                           from_number |-> from_number, to_number |-> ToNumber,
                           status |-> "ringing", ended |-> FALSE,
                           events |-> <<"call_initiated">>]]
    /\ UNCHANGED <<connected, call_active, stream_sid, call_sid, session,
                   messages, dg_connection, response_task, interrupted,
                   is_ai_speaking, ai_spoken_buffer, transcription_buffer,
                   llm_debounce_task, tasks, on_msg, status, marks_due,
                   heard, pf, test_conversations, test_sent>>

\* the CallStatus values for which ended_at is set
EndingStatuses == {"completed", "failed", "busy", "no-answer", "canceled"}

\* the statuses for which the event logged is 'call_ended'
EndedStatuses == {"completed", "failed", "no_answer"}

\* the status webhooks the row has logged
Hooks(row) == Len(row.events) - 1

\* CallStatusView.post on the table
CallStatusRowPost(sid, v) ==
    /\ http_response' =
          [view |-> "call-status", code |-> 200, call_sid |-> sid, call_status |-> v]
    /\ IF call_sessions[sid] = NoRow
       THEN UNCHANGED call_sessions
       ELSE /\ Hooks(call_sessions[sid]) < MaxHooks
            /\ call_sessions' = [call_sessions EXCEPT ![sid] =
                  [@ EXCEPT !.status = StatusMap(v),
                            !.ended = @ \/ v \in EndingStatuses,
                            !.events = Append(@,
                                IF StatusMap(v) \in EndedStatuses
                                THEN "call_ended" ELSE "call_started")]]
    /\ UNCHANGED <<connected, call_active, stream_sid, call_sid, session,
                   messages, dg_connection, response_task, interrupted,
                   is_ai_speaking, ai_spoken_buffer, transcription_buffer,
                   llm_debounce_task, tasks, on_msg, status, marks_due,
                   heard, pf, test_conversations, test_sent>>

\* CallDetailView: the row with this call_sid, or 404
CallDetailGet(sid) ==
    /\ http_response' =
          IF call_sessions[sid] = NoRow
          THEN [view |-> "call-detail", code |-> 404, call_sid |-> sid]
          ELSE [view |-> "call-detail", code |-> 200,
                call_sid |-> call_sessions[sid].call_sid,
                session_id |-> call_sessions[sid].id,
                from_number |-> call_sessions[sid].from_number,
                status |-> call_sessions[sid].status]
    /\ UNCHANGED <<connected, call_active, stream_sid, call_sid, session,
                   messages, dg_connection, response_task, interrupted,
                   is_ai_speaking, ai_spoken_buffer, transcription_buffer,
                   llm_debounce_task, tasks, on_msg, status, marks_due,
                   heard, pf, test_conversations, test_sent, call_sessions>>

NextInbound ==
    \/ \E sid \in CallSids, from_number \in FromNumbers, domain_ok \in BOOLEAN :
          InboundPost(sid, from_number, domain_ok)
    \/ \E sid \in CallSids, v \in TwilioStatuses : CallStatusRowPost(sid, v)
    \/ \E sid \in CallSids : CallDetailGet(sid)

SpecInbound == Init /\ [][NextInbound]_vars

(***************************************************************************)
(* C12: the status webhook on a session of the inbound webhook.             *)
(***************************************************************************)
\* the status the spec has a CallStatus stored as
StoredAs(v) ==
    IF v = "in-progress" THEN "in_progress"
    ELSE IF v = "no-answer" THEN "no_answer"
    ELSE IF v \in {"busy", "canceled"} THEN "failed"
    ELSE v

\* C12: a call-status webhook for the CallSid of an existing session
\* stores the mapped status on that session and leaves its identity, its
\* call_sid and its from_number as they were, and call-detail returns the
\* session as the table has it.
C12_StatusStored ==
    [][/\ \A sid \in CallSids :
             (/\ http_response'.view = "call-status"
              /\ http_response'.call_sid = sid
              /\ call_sessions[sid] # NoRow)
                => /\ call_sessions'[sid].status = StoredAs(http_response'.call_status)
                   /\ call_sessions'[sid].id = call_sessions[sid].id
                   /\ call_sessions'[sid].call_sid = sid
                   /\ call_sessions'[sid].from_number = call_sessions[sid].from_number
                   /\ \A other \in CallSids \ {sid} :
                         call_sessions'[other] = call_sessions[other]
       /\ (http_response'.view = "call-detail" /\ http_response'.code = 200)
             => /\ call_sessions'[http_response'.call_sid] # NoRow
                /\ http_response'.status =
                      call_sessions'[http_response'.call_sid].status
                /\ http_response'.from_number =
                      call_sessions'[http_response'.call_sid].from_number]_vars

\* call-detail returns the session of CAautotest123 as in_progress
C12_DetailInProgress ==
    /\ http_response.view = "call-detail"
    /\ http_response.code = 200
    /\ http_response.call_sid = "CAautotest123"
    /\ http_response.from_number = "+919999999999"
    /\ http_response.status = "in_progress"
    /\ call_sessions["CAautotest123"].events = <<"call_initiated", "call_started">>

(***************************************************************************)
(* The generation stream with a transport that repeats the start event:     *)
(* transcripts, final or not, and the steps of a generation stream that     *)
(* does not fail; the synthesis service has not answered yet.               *)
(***************************************************************************)
\* a transcript that echoes no reply: "no u"
OtherFragText == <<"n","o"," ","u">>

NextRestartReply ==
    \/ \E dg_ok \in BOOLEAN : ReceiveStart(dg_ok)
    \/ \E final \in BOOLEAN : OnMessage(OtherFragText, final)
    \/ OnMessageResume
    \/ DebounceFire
    \/ \E t \in TaskIds : TaskStart(t)
    \/ \E t \in TaskIds : TaskCancelled(t)
    \/ \E t \in TaskIds : LLMOpen(t, TRUE)
    \/ \E t \in TaskIds, content \in Tokens : LLMChunk(t, content)
    \/ \E t \in TaskIds : LLMEnd(t)

SpecRestartReply == Init /\ [][NextRestartReply]_vars

(***************************************************************************)
(* C13: the generation stream of a reply that is cancelled.                 *)
(***************************************************************************)
\* the reply of task t is cancelled: Task.cancel() was called on it, or the
\* flags its generator tests say so
ReplyCancelled(t) == tasks[t].cancel \/ interrupted \/ ~call_active

\* C13: once a reply is cancelled while its tokens are streaming, no
\* further fragment is handed to synthesis, the text in the buffer included.
C13_NoFragmentAfterCancel ==
    [][\A t \in TaskIds :
          (/\ tasks[t].st = "run"
           /\ tasks[t].llm = "open"
           /\ tasks'[t].st = "run"
           /\ ReplyCancelled(t))
              => tasks'[t].frags = tasks[t].frags]_vars

(***************************************************************************)
(* C14 to C18: the interruption controller.                                 *)
(***************************************************************************)
\* on_message interrupts in this step: it cancels, and sends the clear frame
Interrupts == on_msg.pc = "idle" /\ on_msg'.pc = "clear"

\* on_message is resumed after the clear frame in this step
InterruptResumes == on_msg.pc = "clear" /\ on_msg'.pc = "idle"

\* the reply tasks that are playing
Playing(ts) == { t \in TaskIds : ts[t].st = "run" }

\* C14: a substantial partial fragment that interrupts cancels every reply
\* task that is playing as it sends the clear frame, and neither then nor
\* when on_message is resumed is an utterance finalized, a debounce timer
\* started or a reply task created.
C14_PartialInterrupt ==
    [][/\ (Interrupts /\ ~on_msg'.final)
             => /\ \A t \in Playing(tasks) : tasks'[t].cancel
                /\ \A t \in TaskIds : ~TaskCreated(t)
                /\ llm_debounce_task' = llm_debounce_task
       /\ (InterruptResumes /\ ~on_msg.final)
             => /\ transcription_buffer' = <<>>
                /\ llm_debounce_task' # "sleeping"
                /\ \A t \in TaskIds : ~TaskCreated(t)]_vars

\* C15: the interruption is one-shot.  A clear frame is sent only in a step
\* that sets the interrupted flag, so none is sent and no reply task is
\* cancelled by a fragment while the flag is set; the flag is set only as the
\* tracked reply task is cancelled; and the flag is not set once the debounce
\* timer has finalized an utterance.
C15_OneShot ==
    [][/\ Interrupts => (~interrupted /\ interrupted')
       /\ (~interrupted /\ interrupted')
             => (~is_ai_speaking' /\ \A t \in Playing(tasks) : t = response_task => tasks'[t].cancel)
       /\ DebounceFired => ~interrupted']_vars

\* C16: an interruption drops what was pending.  From the step that
\* interrupts to the one that resumes on_message no utterance is finalized,
\* and on_message leaves in the buffer nothing but the interrupting fragment,
\* and that only if it is final.
C16_InterruptionDropsPending ==
    [][/\ on_msg.pc = "clear" => ~DebounceFired
       /\ InterruptResumes
             => transcription_buffer' =
                   IF FinalAccepted(on_msg.sentence, on_msg.final)
                   THEN <<on_msg.sentence>> ELSE <<>>]_vars

\* the return on_message takes before the interruption handling, if any
EarlyReturn(sentence) ==
    IF EchoDropped(sentence, is_ai_speaking, ai_spoken_buffer) THEN "echo"
    ELSE IF is_ai_speaking /\ ~IsSubstantial(sentence) THEN "noise"
    ELSE "none"

\* on_message, with the fragment it was called with and the early return it
\* took kept in pf; seq tells one call from the next
OnMessageSeen(raw, final) ==
    /\ OnMessageCall(raw, final)
    /\ pf' = [fn |-> "on_message", sentence |-> Strip(raw), final |-> final,
              returned |-> EarlyReturn(Strip(raw)),
              seq |-> IF pf = NoPf THEN 0 ELSE 1 - pf.seq]

\* a session whose calls of on_message are seen, with the generation stream
\* and without the synthesis stream
NextHeard ==
    \/ \E dg_ok \in BOOLEAN : StreamStart(dg_ok)
    \/ \E raw \in FragTexts, final \in BOOLEAN : OnMessageSeen(raw, final)
    \/ OnMessageResume
    \/ DebounceFire
    \/ \E t \in TaskIds : TaskStart(t)
    \/ \E t \in TaskIds : TaskCancelled(t)
    \/ \E t \in TaskIds : LLMOpen(t, TRUE)
    \/ \E t \in TaskIds, content \in Tokens : LLMChunk(t, content)
    \/ \E t \in TaskIds : LLMEnd(t)

SpecHeard == Init /\ [][NextHeard]_vars

\* on_message is called in this step
Called == pf' # pf /\ pf'.fn = "on_message"

\* the session but for the record of the call
session_vars ==
    <<connected, call_active, stream_sid, call_sid, session, messages,
      dg_connection, response_task, interrupted, is_ai_speaking,
      ai_spoken_buffer, transcription_buffer, llm_debounce_task, tasks,
      on_msg, status, marks_due, heard>>

\* C17: a fragment the echo filter drops changes nothing in the session: no
\* reply task is cancelled, no clear frame is sent, the buffer and the
\* debounce timer are as they were.
C17_EchoHasNoEffect ==
    [][(Called /\ EchoDropped(pf'.sentence, is_ai_speaking, ai_spoken_buffer))
          => UNCHANGED session_vars]_vars

\* the transcript "hi u" was dropped as an echo of the reply "hi. u"
C17_EchoSeen ==
    /\ pf # NoPf
    /\ pf.sentence = <<"h","i"," ","u">>
    /\ pf.returned = "echo"
    /\ is_ai_speaking
    /\ ai_spoken_buffer = <<"h","i","."," ","u">>
    /\ \E t \in TaskIds : tasks[t].st = "run" /\ ~tasks[t].cancel /\ tasks[t].kind = "reply"

\* a reply is being spoken: a reply task is running and is not cancelled
Spoken(ts) == { t \in Playing(ts) : ~ts[t].cancel }

\* C18: while a reply is being spoken a fragment that is not substantial,
\* partial or final, changes nothing in the session: no reply task is
\* cancelled, no clear frame is sent and the buffer is as it was.
C18_NoiseIgnored ==
    [][(Called /\ Spoken(tasks) # {} /\ ~IsSubstantial(pf'.sentence))
          => UNCHANGED session_vars]_vars

(***************************************************************************)
(* C19 and C20: the speaking flag and the echo baseline.                    *)
(***************************************************************************)
\* reply task t returns in this step, its audio and its mark frame sent
Played(t) == tasks[t].pc = "marked" /\ tasks'[t].pc = "played"

\* C19: the speaking flag outlasts the reply task.  When a reply task
\* returns after it has sent its audio and its mark frame, the flag stays
\* set: the transport has yet to play the audio and to return the mark.
C19_SpeakingUntilMark ==
    [][\A t \in TaskIds : Played(t) => is_ai_speaking']_vars

\* C20: while a reply is being spoken and the speaking flag is set, the echo
\* baseline is the text of that reply produced so far, whatever the kind of
\* the reply.
C20_BaselineIsReply ==
    \A t \in Spoken(tasks) :
        is_ai_speaking => ai_spoken_buffer = Concat(tasks[t].parts)

(***************************************************************************)
(* C21 to C24: the end of a reply task, the apology and the history.        *)
(***************************************************************************)
\* reply task t ends in this step, by return or by CancelledError
Ends(t) == tasks[t].st \in {"pending", "run"} /\ tasks'[t].st = "done"

\* C21: whenever a reply task ends, by normal completion or by cancellation,
\* the echo baseline is empty in the state it ends in.
C21_BaselineEmptyAtEnd ==
    [][\A t \in TaskIds : Ends(t) => ai_spoken_buffer' = <<>>]_vars

\* the last turn of a history
LastTurn(msgs) == IF msgs = <<>> THEN [role |-> "none", content |-> <<>>]
                  ELSE msgs[Len(msgs)]

\* C22: when the generation service has failed, the reply task ends with the
\* apology as the one fragment handed to synthesis, and with the apology as
\* the assistant turn it appends to the history.
C22_ApologyInPlace ==
    [][\A t \in TaskIds :
          (Ends(t) /\ tasks[t].llm = "err")
             => /\ tasks[t].frags = <<ApologyText>>
                /\ LastTurn(messages') = [role |-> "assistant", content |-> ApologyText]]_vars

\* the history holds the user turn with this text
HasUserTurn(msgs, text) ==
    \E i \in 1..Len(msgs) : msgs[i] = [role |-> "user", content |-> text]

\* C23: when a generated reply's task ends by cancellation, the text it has
\* generated is appended to the history as one assistant turn, nothing is
\* appended when it has generated none, and either way the history holds
\* the user utterance the reply was started for.
C23_CancelledReplyRecorded ==
    [][\A t \in TaskIds :
          (Ends(t) /\ tasks[t].cancel /\ tasks[t].kind = "reply")
             => /\ IF tasks[t].parts # <<>>
                   THEN messages' = Append(messages,
                           [role |-> "assistant", content |-> Strip(Concat(tasks[t].parts))])
                   ELSE messages' = messages
                /\ HasUserTurn(messages', tasks[t].text)]_vars

\* reply task t calls the generation service in this step
Opens(t) == tasks[t].llm = "idle" /\ tasks'[t].llm \in {"open", "err"}

\* C24: when a reply task calls the generation service with the history,
\* the history starts with the system turn and its last turn is the user
\* utterance the reply was started for.
C24_HistoryEndsWithUtterance ==
    [][\A t \in TaskIds :
          Opens(t) => /\ messages # <<>>
                      /\ messages[1].role = "system"
                      /\ LastTurn(messages) = [role |-> "user", content |-> tasks[t].text]]_vars

(***************************************************************************)
(* C25: the fragments of the semantic chunker, step by step.                *)
(***************************************************************************)
\* the fragments the chunker yields in this step
Yielded == SubSeq(pf'.frags, Len(pf.frags) + 1, Len(pf'.frags))

\* k is the place of the last sentence terminator of text
IsLastTerminator(text, k) ==
    /\ k \in 1..Len(text)
    /\ text[k] \in {".", "!", "?", ":", "\n"}
    /\ \A j \in (k + 1)..Len(text) : text[j] \notin {".", "!", "?", ":", "\n"}

\* a step of the chunker on a content of the stream: with buffered the text
\* buffered once the content is added, at most one fragment is yielded, it
\* is buffered up to its last terminator and a space, and what follows the
\* terminator stays in the buffer; nothing is yielded when there is no
\* terminator
SplitsAtLastTerminator ==
    LET buffered == pf.buffer \o Head(pf.rest)
    IN  /\ IsPrefix(pf.frags, pf'.frags)
        /\ IF \E k \in 1..Len(buffered) : IsLastTerminator(buffered, k)
           THEN \E k \in 1..Len(buffered) :
                   /\ IsLastTerminator(buffered, k)
                   /\ Yielded = << SubSeq(buffered, 1, k) \o <<" ">> >>
                   /\ pf'.buffer = SubSeq(buffered, k + 1, Len(buffered))
           ELSE Yielded = <<>> /\ pf'.buffer = buffered

\* a step of the chunker
ChunkStep == pf.fn = "chunk" /\ pf'.fn = "chunk" /\ pf.st = "run"

\* C25, as the code has it: before the end of the stream every fragment is
\* split off at the last terminator of the buffered text and padded with a
\* space, the rest staying buffered; at the end of the stream the remaining
\* buffer is yielded, padded with a space, unless it is white space only.
C25_SplitAndFlush ==
    [][ChunkStep =>
          IF pf'.st = "run" THEN SplitsAtLastTerminator
          ELSE /\ IsPrefix(pf.frags, pf'.frags)
               /\ Yielded = IF Strip(pf.buffer) # <<>>
                            THEN << pf.buffer \o <<" ">> >> ELSE <<>>]_vars

\* C25 as stated: at the end of the stream any non-empty remaining buffer is
\* yielded as the final fragment.
C25_FlushNonEmpty ==
    [][(ChunkStep /\ pf'.st = "end" /\ pf.buffer # <<>>) => Yielded # <<>>]_vars

\* the stream "a?b", ".", " " has ended: "a? " and "b. " were yielded, the
\* space that was left is not
C25_BlankLeft ==
    /\ pf.fn = "chunk"
    /\ pf.st = "end"
    /\ pf.stream = << <<"a","?","b">>, <<".">>, <<" ">> >>
    /\ pf.frags = << <<"a","?"," ">>, <<"b","."," ">> >>
    /\ pf.buffer = <<" ">>

(***************************************************************************)
(* C26 to C28: the media frames and the mark frame of a reply.              *)
(***************************************************************************)
\* C26: every media frame sent from the while loop carries CHUNK_SIZE bytes
\* of audio, the frame of the final flush carries fewer and at least one,
\* and no packet of audio was left out before a frame that is sent, so that
\* the frames in send order are the audio in the order it was received.
C26_FramesInOrder ==
    [][\A t \in TaskIds :
          SentMedia(t)
             => /\ tasks'[t].pc = "sending" => tasks'[t].frame = CHUNK_SIZE
                /\ tasks'[t].pc = "flushed"
                      => (0 < tasks'[t].frame /\ tasks'[t].frame < CHUNK_SIZE)
                /\ ~tasks'[t].skipped]_vars

\* the flags let a frame through
Uninterrupted == ~interrupted /\ call_active

\* C27: a reply whose synthesis stream ends while the reply is not
\* interrupted and the call is active does not end there: it sends what is
\* left in audio_buffer in one media frame when there is any, and once that
\* send has returned, or at once when nothing is left, it sends the mark
\* frame; after the mark frame the task sends no media frame and no second
\* mark frame.
C27_FlushThenMark ==
    [][\A t \in TaskIds :
          /\ (tasks[t].pc = "tts" /\ Uninterrupted /\ ~tasks[t].cancel) => ~Ends(t)
          /\ (tasks[t].pc = "tts" /\ tasks'[t].pc = "flushed")
                => (tasks'[t].frame = tasks[t].abuf /\ tasks[t].abuf > 0)
          /\ (tasks[t].pc = "tts" /\ tasks'[t].pc = "marked") => tasks[t].abuf = 0
          /\ (tasks[t].pc = "flushed" /\ tasks'[t].pc # "flushed"
                 /\ Uninterrupted /\ ~tasks[t].cancel)
                => (tasks'[t].pc = "marked" /\ tasks'[t].abuf = 0)
          /\ tasks[t].pc = "marked"
                => (tasks'[t].pc = "marked" \/ tasks'[t].st = "done")]_vars

\* a reply has sent its audio, the remainder of 2000 bytes last, and now its
\* mark frame
C27_MarkAfterFlush ==
    \E t \in TaskIds :
        /\ tasks[t].st = "run"
        /\ tasks[t].pc = "marked"
        /\ tasks[t].spoke
        /\ ~tasks[t].cancel
        /\ marks_due = 1

\* reply task t sends what is left in audio_buffer in this step
SentFlush(t) == tasks'[t].pc = "flushed" /\ tasks[t].pc # "flushed"

\* C28: a reply that was cancelled, or that was playing when a fragment
\* interrupted the session, sends neither the remainder of its audio buffer
\* nor a mark frame.
C28_NoFlushNoMark ==
    [][\A t \in TaskIds :
          (tasks[t].cancel \/ tasks[t].cleared) => (~SentFlush(t) /\ ~SentMark(t))]_vars

(***************************************************************************)
(* C29: the failure of the synthesis stream.                                *)
(***************************************************************************)
\* C29: when the except clause for a failed synthesis stream has run to its
\* end, the reply task has returned, the speaking flag is cleared, the
\* session is connected and active as before, and the text accumulated so
\* far, when there is any, was handed on through the <Say> fallback.
C29_FallbackDelivers ==
    [][\A t \in TaskIds :
          (tasks[t].pc = "logging" /\ Ends(t) /\ ~tasks[t].cancel)
             => /\ ~is_ai_speaking'
                /\ connected' = connected
                /\ call_active' = call_active
                /\ dg_connection' = dg_connection
                /\ Strip(Concat(tasks[t].parts)) # <<>> => tasks'[t].fallback]_vars

(***************************************************************************)
(* C30: the failure of a send to the transport.                             *)
(***************************************************************************)
\* self.send raises in _handle_ai_response while a media frame or the mark
\* frame is sent: the except clause, to the await of _log_event
SendError(t) ==
    /\ Runnable(t)
    /\ tasks[t].pc \in {"sending", "flushed", "marked"}
    /\ tasks' = [tasks EXCEPT ![t].pc = "logging", ![t].sendfail = TRUE]
    /\ UNCHANGED <<connected, call_active, stream_sid, call_sid, session,
                   messages, dg_connection, response_task, interrupted,
                   is_ai_speaking, ai_spoken_buffer, transcription_buffer,
                   llm_debounce_task, on_msg, status, marks_due, heard, pf,
                   test_conversations, test_sent, http_response,
                   call_sessions>>

\* a session whose sends to the transport can fail
NextSendFail ==
    \/ \E dg_ok \in BOOLEAN : StreamStart(dg_ok)
    \/ \E raw \in FragTexts : OnMessage(raw, TRUE)
    \/ OnMessageResume
    \/ DebounceFire
    \/ TaskStep
    \/ \E t \in TaskIds : SendError(t)
    \/ \E t \in TaskIds, ok \in BOOLEAN : Fallback(t, ok)

SpecSendFail == Init /\ [][NextSendFail]_vars

\* C30: a reply task one of whose sends to the transport has failed ends
\* without having issued the <Say> fallback of a synthesis failure, and the
\* session is ended when it does.
C30_SendFailureEndsSession ==
    [][\A t \in TaskIds :
          (tasks[t].sendfail /\ Ends(t))
             => (~tasks'[t].fallback /\ ~(connected' /\ call_active'))]_vars

(***************************************************************************)
(* C31: a recognition service that fails to start.                          *)
(***************************************************************************)
\* C31: when the recognition service has failed to start, no reply task is
\* started and no media frame is sent: no step that leaves the recognition
\* adapter failed creates a task or sends audio.
C31_NoGreetingWithoutRecognition ==
    [][dg_connection' = "failed" =>
          \A t \in TaskIds : ~TaskCreated(t) /\ ~SentMedia(t)]_vars

(***************************************************************************)
(* The start sequence step by step: _handle_start suspends in               *)
(* _load_session, in _fetch_context, in _log_event and in the start of the  *)
(* recognition adapter, and the persistence layer or the context API may    *)
(* fail at each of them.  pf holds the handler's position and what it has   *)
(* done so far.  receive handles one event at a time, so a stop event is   *)
(* handled between two start handlers; the reply tasks run at any time.     *)
(***************************************************************************)
\* the system prompt followed by the context of the person called
ContextPromptText == SystemPromptText \o <<"+","c","t","x">>

\* what the context API does: the session has no context_url, the API
\* answers 200 with data, the API fails
ContextOutcomes == {"none", "ok", "fail"}

\* _handle_start is suspended at one of its awaits
InStart == pf # NoPf /\ pf.fn = "start" /\ pf.pc \in {"load", "context", "log", "deepgram"}

\* an exception of the persistence layer leaves _handle_start and receive:
\* the consumer's dispatch loop ends with it, the tasks it created stay
Raised == [fn |-> "start", pc |-> "raised", did |-> pf.did]

\* receive, event 'start': _handle_start up to the await of _load_session
HandleStart ==
    /\ connected
    /\ ~CancelDue
    /\ ~InStart
    /\ HasFreeSlot
    /\ stream_sid' = "MZ1"
    /\ call_sid' = "CA1"
    /\ pf' = [fn |-> "start", pc |-> "load", did |-> <<>>]
    /\ UNCHANGED <<connected, call_active, session, messages, dg_connection,
                   response_task, interrupted, is_ai_speaking,
                   ai_spoken_buffer, transcription_buffer, llm_debounce_task,
                   tasks, on_msg, status, marks_due, heard,
                   test_conversations, test_sent, http_response,
                   call_sessions>>

\* _load_session returns the row, loaded or created, or the database raises
LoadSession(db_ok) ==
    /\ InStart
    /\ pf.pc = "load"
    /\ ~CancelDue
    /\ IF db_ok
       THEN /\ session' = TRUE
            /\ status' = "in_progress"
            /\ pf' = [pf EXCEPT !.pc = "context"]
            /\ UNCHANGED connected
       ELSE /\ pf' = Raised
            /\ connected' = FALSE
            /\ UNCHANGED <<session, status>>
    /\ UNCHANGED <<call_active, stream_sid, call_sid, messages,
                   dg_connection, response_task, interrupted, is_ai_speaking,
                   ai_spoken_buffer, transcription_buffer, llm_debounce_task,
                   tasks, on_msg, marks_due, heard, test_conversations,
                   test_sent, http_response, call_sessions>>

\* _fetch_context and the seeding of self.messages: every outcome of the
\* context API is caught, but the call of _log_event in the handler of a
\* failure is not guarded
FetchContext(ctx, db_ok) ==
    /\ InStart
    /\ pf.pc = "context"
    /\ ~CancelDue
    /\ IF ctx = "fail" /\ ~db_ok
       THEN /\ pf' = Raised
            /\ connected' = FALSE
            /\ UNCHANGED messages
       ELSE /\ messages' = << [role |-> "system",
                               content |-> IF ctx = "ok" THEN ContextPromptText
                                           ELSE SystemPromptText] >>
            /\ pf' = [pf EXCEPT !.pc = "log", !.did = Append(@, "history")]
            /\ UNCHANGED connected
    /\ UNCHANGED <<call_active, stream_sid, call_sid, session, dg_connection,
                   response_task, interrupted, is_ai_speaking,
                   ai_spoken_buffer, transcription_buffer, llm_debounce_task,
                   tasks, on_msg, status, marks_due, heard,
                   test_conversations, test_sent, http_response,
                   call_sessions>>

\* await self._log_event('call_started', ...)
LogCallStarted(db_ok) ==
    /\ InStart
    /\ pf.pc = "log"
    /\ ~CancelDue
    /\ IF db_ok
       THEN /\ pf' = [pf EXCEPT !.pc = "deepgram"]
            /\ UNCHANGED connected
       ELSE /\ pf' = Raised
            /\ connected' = FALSE
    /\ UNCHANGED <<call_active, stream_sid, call_sid, session, messages,
                   dg_connection, response_task, interrupted, is_ai_speaking,
                   ai_spoken_buffer, transcription_buffer, llm_debounce_task,
                   tasks, on_msg, status, marks_due, heard,
                   test_conversations, test_sent, http_response,
                   call_sessions>>

\* _start_deepgram returns and the greeting task is created; when the
\* adapter fails to start, the failure is logged first
StartDeepgram(dg_ok, db_ok) ==
    /\ InStart
    /\ pf.pc = "deepgram"
    /\ ~CancelDue
    /\ HasFreeSlot
    /\ dg_connection' = IF dg_ok THEN "open" ELSE "failed"
    /\ IF ~dg_ok /\ ~db_ok
       THEN /\ pf' = [Raised EXCEPT !.did = Append(@, "recognition")]
            /\ connected' = FALSE
            /\ UNCHANGED <<tasks, response_task>>
       ELSE /\ tasks' = [tasks EXCEPT ![NextTaskId] =
                            NewTask("greeting", <<>>, <<GreetingText>>)]
            /\ response_task' = NextTaskId
            /\ pf' = [pf EXCEPT !.pc = "done",
                                !.did = @ \o <<"recognition", "greeting">>]
            /\ UNCHANGED connected
    /\ UNCHANGED <<call_active, stream_sid, call_sid, session, messages,
                   interrupted, is_ai_speaking, ai_spoken_buffer,
                   transcription_buffer, llm_debounce_task, on_msg, status,
                   marks_due, heard, test_conversations, test_sent,
                   http_response, call_sessions>>

NextStart ==
    \/ HandleStart
    \/ \E db_ok \in BOOLEAN : LoadSession(db_ok)
    \/ \E ctx \in ContextOutcomes, db_ok \in BOOLEAN : FetchContext(ctx, db_ok)
    \/ \E db_ok \in BOOLEAN : LogCallStarted(db_ok)
    \/ \E dg_ok \in BOOLEAN, db_ok \in BOOLEAN : StartDeepgram(dg_ok, db_ok)
    \/ ~InStart /\ ReceiveStop
    \/ TaskStep

SpecStart == Init /\ [][NextStart]_vars

\* the start handler has ended in this step, by returning or by raising
StartEnds == InStart /\ ~InStart'

(***************************************************************************)
(* C32: failures of the persistence layer.                                  *)
(***************************************************************************)
\* C32: a failure of the persistence layer never stops the start sequence:
\* a start handler that has ended has seeded the history, started the
\* recognition adapter and started the greeting task.
C32_PersistenceNeverStopsStart ==
    (pf # NoPf /\ pf.fn = "start" /\ ~InStart)
        => /\ pf.did = <<"history", "recognition", "greeting">>
           /\ messages # <<>>
           /\ dg_connection # "none"
           /\ response_task # 0

(***************************************************************************)
(* C33: the order of the start sequence.                                    *)
(***************************************************************************)
\* C33: every start event seeds the history with exactly one system-prompt
\* turn, then starts the recognition adapter, then starts a greeting task,
\* whatever the context API does.
C33_StartSequence ==
    [][/\ (InStart /\ pf.pc = "context" /\ pf' # Raised)
            => Len(messages') = 1 /\ messages'[1].role = "system"
       /\ StartEnds
            => /\ pf'.did = <<"history", "recognition", "greeting">>
               /\ IF response_task' = 0 THEN FALSE
                  ELSE /\ TaskCreated(response_task')
                       /\ tasks'[response_task'].kind = "greeting"]_vars

(***************************************************************************)
(* C34: what the end of the session releases.                               *)
(***************************************************************************)
\* the session ends in this step: a stop event or a disconnect is handled
SessionEnds == call_active /\ ~call_active'

\* C34: when the session ends, on a stop event or on a disconnect, no reply
\* task is left that has not been cancelled, and the recognition adapter
\* is no longer open.
C34_EndReleases ==
    [][SessionEnds =>
          /\ \A t \in Live(tasks') : tasks'[t].cancel
          /\ dg_connection' # "open"]_vars

(***************************************************************************)
(* C35: the session record at the end of the session.                       *)
(***************************************************************************)
\* C35: whenever the session ends, on a stop event or on a disconnect, the
\* session record is stored with its final status.
C35_EndPersisted ==
    [][(SessionEnds /\ session) => status' = "completed"]_vars

(***************************************************************************)
(* C36 and C37: after the session has ended.                                *)
(***************************************************************************)
\* a transport that repeats the start event and then stops the stream: the
\* stop event finds reply tasks the session no longer tracks and a debounce
\* timer still asleep
NextStop ==
    \/ NextRestart
    \/ ReceiveStop

SpecStop == Init /\ [][NextStop]_vars

\* C36: once a stop event or a disconnect has been handled, no media frame,
\* no mark frame and no clear frame is sent, whatever task or timer was
\* pending.
C36_SilentAfterEnd ==
    [][~call_active =>
          /\ \A t \in TaskIds : ~SentMedia(t) /\ ~SentMark(t)
          /\ ~Interrupts]_vars

\* the stop event has found a reply task the session does not track, and
\* the task has held back a frame it had ready
C36_FrameHeldBack ==
    /\ ~call_active
    /\ ~interrupted
    /\ \E t \in TaskIds : tasks[t].skipped /\ ~tasks[t].cancel

\* C37: once a stop event has been handled, no reply task is created and
\* nothing is appended to the conversation history, even when a debounce
\* timer was asleep as the stop arrived.  What a further start event does
\* (a greeting task, a history seeded anew) is left aside.
C37_NothingNewAfterStop ==
    [][(~call_active /\ stream_sid # "") =>
          /\ \A t \in TaskIds : TaskCreated(t) => tasks'[t].kind = "greeting"
          /\ UserTurns(messages') <= UserTurns(messages)]_vars

(***************************************************************************)
(* C38: the completion mark and the speaking flag.                          *)
(***************************************************************************)
\* a transport that repeats the start event and returns the marks it is sent
NextMark ==
    \/ NextRestart
    \/ ReceiveMark

SpecMark == Init /\ [][NextMark]_vars

\* a returned mark clears the speaking flag in this step
MarkClears == marks_due' < marks_due /\ is_ai_speaking /\ ~is_ai_speaking'

C39_FlagsExclusive == ~(interrupted /\ is_ai_speaking)

\* a reply has started while an interruption was waiting for its clear
\* frame to be sent: the reply has reset the interrupted flag
C39_ReplyStartsDuringClear ==
    /\ on_msg.pc = "clear"
    /\ is_ai_speaking
    /\ ~interrupted

(***************************************************************************)
(* C40: an utterance that ends the call.                                    *)
(***************************************************************************)
\* the utterance holds one of the end-call phrases as a word
SaysGoodbye(u) ==
    \E p \in EndCallPhrases : \E i \in 1..Len(u) : EndCallMatchAt(u, p, i)

\* C40: an utterance with an end-call phrase opens no generation stream and
\* is not appended to the history; the fixed goodbye text alone is handed
\* to synthesis.  The timer that finalizes it creates a goodbye task and
\* leaves the history as it is; a goodbye task has no generation stream and
\* no text but the goodbye text; no reply task and no user turn holds such
\* an utterance.
C40_GoodbyeOnly ==
    [][/\ (DebounceFired /\ SaysGoodbye(FullSentence(transcription_buffer)))
            => /\ IF response_task' = 0 THEN FALSE
                  ELSE /\ TaskCreated(response_task')
                       /\ tasks'[response_task'].kind = "goodbye"
               /\ messages' = messages
       /\ \A t \in Live(tasks') :
            /\ tasks'[t].kind = "goodbye"
                  => /\ tasks'[t].llm = "idle"
                     /\ tasks'[t].frags = <<>>
                     /\ tasks'[t].text = <<>>
                     /\ tasks'[t].parts = <<GoodbyeText>>
            /\ (tasks'[t].kind = "reply" /\ tasks'[t].text # tasks[t].text)
                  => ~SaysGoodbye(tasks'[t].text)
       /\ messages' # messages
            => \A i \in 1..Len(messages') :
                  messages'[i].role = "user" => ~SaysGoodbye(messages'[i].content)]_vars

\* the goodbye has been spoken to its mark, and the history holds no turn
\* of the caller
C40_GoodbyePlayed ==
    /\ \E t \in TaskIds : tasks[t].kind = "goodbye" /\ tasks[t].pc = "played"
    /\ UserTurns(messages) = 0

====
